---------------------------- MODULE Spec2Model ----------------------------
(***************************************************************************)
(* A model of find_duplicate_header_guards.py: the classification of one   *)
(* header's text (uses_pragma_once, get_header_guard_status, check_header, *)
(* process_file), the grouping of guard tags (map_guard_tag_to_filepaths,  *)
(* duplicated_header_guards_exist) and the directory run (process_dir).    *)
(*                                                                         *)
(* Encodings.  A text is a sequence of lexemes; each lexeme is a run of    *)
(* characters that the program's regular expressions treat as a unit: the  *)
(* literals "#ifndef", "#define", "#pragma once", the space, the tab, the  *)
(* newline, the word characters "A" and "B", and "/" for any other         *)
(* character.  A Python str is therefore a sequence of lexemes and the     *)
(* empty str is << >>.  An Optional[T] is a sequence of length at most     *)
(* one: None is << >> and a present value x is << x >>.                    *)
(***************************************************************************)
EXTENDS Naturals, Sequences, FiniteSets

VARIABLES pc, data, statuses, files,
          pragma_result, guard_result, status, outcome,
          map_result, dup_result, dir_result, exit_status

vars == << pc, data, statuses, files,
           pragma_result, guard_result, status, outcome,
           map_result, dup_result, dir_result, exit_status >>

None == << >>
Some(x) == << x >>

Max(S) == CHOOSE x \in S : \A y \in S : y <= x
Min(S) == CHOOSE x \in S : \A y \in S : x <= y

(***************************************************************************)
(* Character classes of Python's re module.                                *)
(***************************************************************************)
NL == "\n"
WordChars == {"A", "B"}
SpaceChars == {" ", "\t", NL}
IsWord(c) == c \in WordChars
IsSpace(c) == c \in SpaceChars
IsDot(c) == c # NL

\* The literal lit occurs in d at position p.
LitAt(d, p, lit) ==
    /\ p + Len(lit) - 1 <= Len(d)
    /\ \A i \in 1..Len(lit) : d[p + i - 1] = lit[i]

\* The length of the longest run of word characters of d that starts at p.
WordRun(d, p) ==
    Max({n \in 0..(Len(d) + 1 - p) : \A i \in p..(p + n - 1) : IsWord(d[i])})

\* "\n#define"
DefineAt(d, r) == LitAt(d, r, << NL, "#define" >>)

\* "\n#define (\w+)"
DefineIdAt(d, r) ==
    LitAt(d, r, << NL, "#define", " " >>) /\ WordRun(d, r + 3) >= 1

\* The end of either pattern: with_id chooses "\n#define (\w+)".
SuffixAt(d, r, with_id) == IF with_id THEN DefineIdAt(d, r) ELSE DefineAt(d, r)

\* ".*" followed by the suffix, from q: greedy, so the furthest position on
\* q's line at which the suffix matches; 0 when there is none.
DotStarPick(d, q, with_id) ==
    LET C == {r \in q..(Len(d) + 1) :
                 /\ \A i \in q..(r - 1) : IsDot(d[i])
                 /\ SuffixAt(d, r, with_id)}
    IN  IF C = {} THEN 0 ELSE Max(C)

\* The first of two attempts that matched (0: no match).
FirstMatched(first, second) == IF first # 0 THEN first ELSE second

\* "\s?.*" followed by the suffix, from q: the optional whitespace character
\* is tried first (greedy "?"), and given up only if the rest then fails.
TailPick(d, q, with_id) ==
    FirstMatched(IF q <= Len(d) /\ IsSpace(d[q])
                 THEN DotStarPick(d, q + 1, with_id) ELSE 0,
                 DotStarPick(d, q, with_id))

\* r"#ifndef (\w+)\s?.*\n#define" matched at p: the lengths the group can
\* take there (backtracking tries the longest first).
GuardNameLens(d, p) ==
    IF LitAt(d, p, << "#ifndef", " " >>)
    THEN {w \in 1..WordRun(d, p + 2) : TailPick(d, p + 2 + w, FALSE) # 0}
    ELSE {}

\* f"#ifndef {tag}\s?.*\n#define (\w+)" matched at p: the position of the
\* newline before "#define", 0 when there is no match at p.
DefineTagPos(d, p, tag) ==
    IF LitAt(d, p, << "#ifndef", " " >> \o tag)
    THEN TailPick(d, p + 2 + Len(tag), TRUE)
    ELSE 0

HeaderGuardStatus(ifndef_name, def_name) ==
    [ifndef_name |-> ifndef_name, def_name |-> def_name]

\* re.search: the leftmost position among those where the pattern matches
\* (0: no match).
Leftmost(P) == IF P = {} THEN 0 ELSE Min(P)

\* header_guard_tag_result.group(1), for the match at p1
HeaderGuardTag(d, p1) == SubSeq(d, p1 + 2, p1 + 1 + Max(GuardNameLens(d, p1)))

\* define_tag_result.group(1) for the match whose "\n#define" is at r, and
\* "" when there is no match (p2 = 0)
DefineGroup(d, r) == SubSeq(d, r + 3, r + 2 + WordRun(d, r + 3))

DefineTag(d, tag, p2) ==
    IF p2 = 0 THEN << >> ELSE DefineGroup(d, DefineTagPos(d, p2, tag))

\* lines 70-77: the second search and the result, for the tag of the first
GuardStatusOf(d, header_guard_tag) ==
    Some(HeaderGuardStatus(
        Some(header_guard_tag),
        Some(DefineTag(d, header_guard_tag,
                 Leftmost({p \in 1..Len(d) :
                              DefineTagPos(d, p, header_guard_tag) # 0})))))

\* lines 68-77, for the first search's match at p1 (0: no match)
GuardStatusAt(d, p1) ==
    IF p1 = 0 THEN None ELSE GuardStatusOf(d, HeaderGuardTag(d, p1))

get_header_guard_status(d) ==
    GuardStatusAt(d, Leftmost({p \in 1..Len(d) : GuardNameLens(d, p) # {}}))

\* re.match(r"^#pragma once\s?\n", data)
uses_pragma_once(d) ==
    /\ LitAt(d, 1, << "#pragma once" >>)
    /\ \/ LitAt(d, 2, << NL >>)
       \/ Len(d) >= 3 /\ IsSpace(d[2]) /\ d[3] = NL

HeaderStatus(file_path, header_guard_status, pragma) ==
    [file_path |-> file_path,
     header_guard_status |-> header_guard_status,
     uses_pragma_once |-> pragma]

\* lines 104-116, for status = get_header_guard_status(data)
GuardedOrNot(file_path, guard) ==
    IF guard # None
    THEN HeaderStatus(file_path, guard, FALSE)
    ELSE HeaderStatus(file_path, None, FALSE)

check_header(file_path, d) ==
    IF uses_pragma_once(d)
    THEN HeaderStatus(file_path, None, TRUE)
    ELSE GuardedOrNot(file_path, get_header_guard_status(d))

\* get_error without its comparison of the two names
get_error_without_comparison(self) ==
    IF self.ifndef_name = None THEN Some("#ifndef is missing") ELSE None

\* HeaderGuardStatus.get_error
get_error(self) ==
    IF self.ifndef_name = None
    THEN Some("#ifndef is missing")
    ELSE IF self.def_name # self.ifndef_name
         THEN Some("#ifndef != def_name")
         ELSE None

\* What a call did: it returned value, or raised the exception value;
\* printed is what it wrote to standard output.
Return(value, printed) == [kind |-> "return", value |-> value, printed |-> printed]
Raise(value) == [kind |-> "raise", value |-> value, printed |-> << >>]

\* lines 198-203, for error = status.header_guard_status.get_error()
GuardOutcome(error) ==
    IF error # None
    THEN Return(Some([text |-> "error with header guards", error |-> error[1]]),
                << >>)
    ELSE Return(None, << "uses header guards." >>)

\* lines 192-205, for status = check_header(file_path)
FileOutcome(st) ==
    IF ~st.uses_pragma_once /\ st.header_guard_status = None
    THEN Return(Some([text |-> "does not have any header duplication protection.",
                      error |-> ""]), << >>)
    ELSE IF st.uses_pragma_once
    THEN Return(None, << "uses pragma once" >>)
    ELSE IF st.header_guard_status # None
    THEN GuardOutcome(get_error(st.header_guard_status[1]))
    ELSE Raise("RuntimeError: Should not get here")

process_file(file_path, d) == FileOutcome(check_header(file_path, d))

(***************************************************************************)
(* The texts a file can hold: up to MaxLines lines, the last one with or   *)
(* without its newline.                                                    *)
(***************************************************************************)
MaxLines == 3

Lines ==
    { << >>,
      << "/" >>,
      << "#pragma once" >>,
      << " ", "#pragma once" >>,
      << "#pragma once", " " >>,
      << "#pragma once", " ", "\t" >>,
      << "#ifndef", " ", "A" >>,
      << "#ifndef", " ", "A", " ", "/" >>,
      << "#ifndef", " ", "B" >>,
      << "#ifndef", " ", "A", "B" >>,
      << "#define" >>,
      << "#define", " ", "A" >>,
      << "#define", " ", "B" >>,
      << "#define", " ", "A", "B" >> }

RECURSIVE Text(_, _)
Text(ls, eof_newline) ==
    IF ls = << >> THEN << >>
    ELSE IF Len(ls) = 1
         THEN IF eof_newline THEN ls[1] \o << NL >> ELSE ls[1]
         ELSE ls[1] \o << NL >> \o Text(Tail(ls), eof_newline)

Texts ==
    {Text(ls, nl) : ls \in UNION {[1..k -> Lines] : k \in 0..MaxLines},
                    nl \in BOOLEAN}

ThePath == "header.h"

(***************************************************************************)
(* Single-file operations, each applied to a text the file holds.          *)
(***************************************************************************)
InitFile ==
    /\ pc = "idle"
    /\ data \in Texts
    /\ statuses = << >>
    /\ files = {}
    /\ pragma_result = None
    /\ guard_result = None
    /\ status = None
    /\ outcome = None
    /\ map_result = None
    /\ dup_result = None
    /\ dir_result = None
    /\ exit_status = None

UsesPragmaOnceCall ==
    /\ pc = "idle"
    /\ pc' = "uses_pragma_once"
    /\ pragma_result' = Some(uses_pragma_once(data))
    /\ UNCHANGED << data, statuses, files, guard_result, status, outcome,
                    map_result, dup_result, dir_result, exit_status >>

GetHeaderGuardStatusCall ==
    /\ pc = "idle"
    /\ pc' = "get_header_guard_status"
    /\ guard_result' = Some(get_header_guard_status(data))
    /\ UNCHANGED << data, statuses, files, pragma_result, status, outcome,
                    map_result, dup_result, dir_result, exit_status >>

CheckHeaderCall ==
    /\ pc = "idle"
    /\ pc' = "check_header"
    /\ status' = Some(check_header(ThePath, data))
    /\ UNCHANGED << data, statuses, files, pragma_result, guard_result, outcome,
                    map_result, dup_result, dir_result, exit_status >>

ProcessFileCall ==
    /\ pc = "idle"
    /\ pc' = "process_file"
    /\ outcome' = Some(process_file(ThePath, data))
    /\ UNCHANGED << data, statuses, files, pragma_result, guard_result, status,
                    map_result, dup_result, dir_result, exit_status >>

NextFile ==
    \/ UsesPragmaOnceCall
    \/ GetHeaderGuardStatusCall
    \/ CheckHeaderCall
    \/ ProcessFileCall

SpecFile == InitFile /\ [][NextFile]_vars


(***************************************************************************)
(* The grouping of guard tags.  A dict is the sequence of its items in     *)
(* insertion order, each item a key (tag) with its list (paths).           *)
(***************************************************************************)
DictKeys(ret) == {ret[k].tag : k \in 1..Len(ret)}

\* "not x" for an Optional[str]: None and the empty str are falsy.
Falsy(x) == x = None \/ x = Some(<< >>)

\* The turn of the loop with the path put at the head of its list
DictPrepend(ret, tag, file_path) ==
    LET r == IF tag \in DictKeys(ret)
             THEN ret
             ELSE Append(ret, [tag |-> tag, paths |-> << >>])
    IN  [k \in 1..Len(r) |->
            IF r[k].tag = tag
            THEN [tag |-> tag, paths |-> << file_path >> \o r[k].paths]
            ELSE r[k]]

\* One turn of the loop for a status that passed both checks:
\* if tag not in ret: ret[tag] = []; ret[tag].append(status.file_path)
DictAppend(ret, tag, file_path) ==
    LET r == IF tag \in DictKeys(ret)
             THEN ret
             ELSE Append(ret, [tag |-> tag, paths |-> << >>])
    IN  [k \in 1..Len(r) |->
            IF r[k].tag = tag
            THEN [tag |-> tag, paths |-> Append(r[k].paths, file_path)]
            ELSE r[k]]

RECURSIVE MapLoop(_, _, _)
MapLoop(ss, i, ret) ==
    IF i > Len(ss) THEN Return(ret, << >>)
    ELSE IF ss[i].header_guard_status = None
    THEN Raise("ValueError: does not have a header_guard_status")
    ELSE IF Falsy(ss[i].header_guard_status[1].ifndef_name)
    THEN Raise("ValueError: does not have a ifndef tag")
    ELSE MapLoop(ss, i + 1,
                 DictAppend(ret, ss[i].header_guard_status[1].ifndef_name[1],
                            ss[i].file_path))

\* The loop passing over the statuses it should refuse
Usable(s) ==
    s.header_guard_status # None /\ ~Falsy(s.header_guard_status[1].ifndef_name)

map_guard_tag_to_filepaths_skipping(ss) == MapLoop(SelectSeq(ss, Usable), 1, << >>)

map_guard_tag_to_filepaths(ss) == MapLoop(ss, 1, << >>)

\* len(paths) > 2
IsRepeatedOffByOne(item) == Len(item.paths) > 2

\* len(paths) > 1
IsRepeated(item) == Len(item.paths) > 1

\* lines 139-151, for the dict that map_guard_tag_to_filepaths returned
ReportRepeated(header_statuses, guard_tags_to_filepaths, repeated_tags) ==
    [kind |-> "return",
     value |-> Len(repeated_tags) > 0,
     printed |-> [files_using_guards |-> Len(header_statuses),
                  unique_guards |-> Len(guard_tags_to_filepaths),
                  reused_guards |-> Len(repeated_tags),
                  repeated_tags |-> repeated_tags]]

\* lines 137-151, for what map_guard_tag_to_filepaths did (its exception
\* is not caught)
DuplicatedFrom(header_statuses, m) ==
    IF m.kind = "raise" THEN m
    ELSE ReportRepeated(header_statuses, m.value, SelectSeq(m.value, IsRepeated))

duplicated_header_guards_exist(header_statuses) ==
    DuplicatedFrom(header_statuses, map_guard_tag_to_filepaths(header_statuses))

\* The statuses the grouping is applied to: the i-th has the i-th path.
MaxStatuses == 3

GuardChoices ==
    { None,
      Some(HeaderGuardStatus(None, None)),
      Some(HeaderGuardStatus(Some(<< >>), Some(<< >>))),
      Some(HeaderGuardStatus(Some(<< "A" >>), Some(<< "A" >>))),
      Some(HeaderGuardStatus(Some(<< "B" >>), Some(<< "A" >>))) }

StatusLists ==
    UNION {{[i \in 1..n |-> HeaderStatus(i, g[i], g[i] = None /\ b[i])] :
               g \in [1..n -> GuardChoices], b \in [1..n -> BOOLEAN]} :
           n \in 0..MaxStatuses}

InitMap ==
    /\ pc = "idle"
    /\ data = << >>
    /\ statuses \in StatusLists
    /\ files = {}
    /\ pragma_result = None
    /\ guard_result = None
    /\ status = None
    /\ outcome = None
    /\ map_result = None
    /\ dup_result = None
    /\ dir_result = None
    /\ exit_status = None

MapGuardTagToFilepathsCall ==
    /\ pc = "idle"
    /\ pc' = "map_guard_tag_to_filepaths"
    /\ map_result' = Some(map_guard_tag_to_filepaths(statuses))
    /\ UNCHANGED << data, statuses, files, pragma_result, guard_result, status,
                    outcome, dup_result, dir_result, exit_status >>

DuplicatedHeaderGuardsExistCall ==
    /\ pc = "idle"
    /\ pc' = "duplicated_header_guards_exist"
    /\ dup_result' = Some(duplicated_header_guards_exist(statuses))
    /\ UNCHANGED << data, statuses, files, pragma_result, guard_result, status,
                    outcome, map_result, dir_result, exit_status >>

NextMap ==
    \/ MapGuardTagToFilepathsCall
    \/ DuplicatedHeaderGuardsExistCall

SpecMap == InitMap /\ [][NextMap]_vars


(***************************************************************************)
(* The directory run.  A directory is the sequence of names from the root  *)
(* to it (the root is << >>); a file name is its stem followed by its      *)
(* suffixes; files is the set of files of the tree, each with its text.    *)
(***************************************************************************)
Dirs ==
    { << >>,
      << "a" >>,
      << "a", "b" >>,
      << "a", ".svn" >>,
      << ".git" >>,
      << ".git", "a" >> }

FileNames == { << "x", ".h" >>, << "y", ".HPP" >>, << "z", ".c" >> }

\* str.lower on the suffixes in use
Lower(x) == CASE x = ".HPP" -> ".hpp" [] OTHER -> x

\* Path(file_name).suffixes
Suffixes(file_name) == Tail(file_name)

is_header(file_name) ==
    LET header_extensions == {".h", ".hpp", ".hxx"}
        file_extensions ==
            {Lower(Suffixes(file_name)[k]) : k \in 1..Len(Suffixes(file_name))}
    IN  file_extensions \cap header_extensions # {}

dirs_to_ignore(ignore_source_control_dirs) ==
    IF ignore_source_control_dirs THEN {".git", ".svn"} ELSE {}

\* A set as a list, in the order the operating system happens to give.
RECURSIVE Listing(_)
Listing(S) ==
    IF S = {} THEN << >>
    ELSE LET x == CHOOSE x \in S : TRUE
         IN  << x >> \o Listing(S \ {x})

RECURSIVE Concat(_)
Concat(lists) ==
    IF lists = << >> THEN << >> ELSE lists[1] \o Concat(Tail(lists))

\* The entries of os.scandir(current_dir) that are directories.
ScanDirs(current_dir) ==
    Listing({d \in Dirs : Len(d) = Len(current_dir) + 1
                          /\ SubSeq(d, 1, Len(current_dir)) = current_dir})

\* The entries of os.scandir(dir_to_search) that are files.
ScanFiles(dir_to_search) ==
    Listing({[dir |-> f.dir, name |-> f.name] : f \in {g \in files : g.dir = dir_to_search}})

RECURSIVE get_sub_dirs_to_search(_, _)
get_sub_dirs_to_search(current_dir, ignore) ==
    LET notIgnored(d) == d[Len(d)] \notin ignore
        subfolders == SelectSeq(ScanDirs(current_dir), notIgnored)
    IN  subfolders \o
        Concat([k \in 1..Len(subfolders) |->
                   get_sub_dirs_to_search(subfolders[k], ignore)])

find_header_files(dir_to_search) ==
    LET isHeaderFile(f) == is_header(f.name)
    IN  SelectSeq(ScanFiles(dir_to_search), isHeaderFile)

\* file.read() of the file at file_path
ReadText(file_path) ==
    (CHOOSE f \in files : f.dir = file_path.dir /\ f.name = file_path.name).data

\* "and" in the place of "or"
ErrorsFoundBoth(no_header_protection_found, duplicated_headers_found) ==
    no_header_protection_found /\ duplicated_headers_found

\* if no_header_protection_found or duplicated_headers_found
ErrorsFound(no_header_protection_found, duplicated_headers_found) ==
    no_header_protection_found \/ duplicated_headers_found

\* lines 157-159
FindHeaders(sub_dirs) ==
    Concat([k \in 1..Len(sub_dirs) |-> find_header_files(sub_dirs[k])])

\* lines 162-164
CheckHeaders(headers) ==
    [k \in 1..Len(headers) |-> check_header(headers[k], ReadText(headers[k]))]

Unprotected(s) == s.header_guard_status = None /\ ~s.uses_pragma_once
Guarded(s) == s.header_guard_status # None
FilePaths(ss) == [k \in 1..Len(ss) |-> ss[k].file_path]

\* lines 184-187, for what duplicated_header_guards_exist did (its exception
\* is not caught)
DirOutcome(headers, header_statuses, no_header_duplication_protection, dup) ==
    IF dup.kind = "raise" THEN dup
    ELSE [kind |-> "return",
          value |-> IF ErrorsFound(Len(no_header_duplication_protection) > 0,
                                   dup.value)
                    THEN Some("Errors found") ELSE None,
          printed |-> [headers |-> headers,
                       header_statuses |-> header_statuses,
                       without_protection |->
                           FilePaths(no_header_duplication_protection),
                       duplicated |-> dup.printed]]

\* lines 168-187
ProcessStatuses(headers, header_statuses) ==
    DirOutcome(headers, header_statuses,
               SelectSeq(header_statuses, Unprotected),
               duplicated_header_guards_exist(SelectSeq(header_statuses, Guarded)))

\* lines 162-187
ProcessHeaders(headers) == ProcessStatuses(headers, CheckHeaders(headers))

process_dir(root) ==
    ProcessHeaders(FindHeaders(get_sub_dirs_to_search(root, dirs_to_ignore(TRUE))))

\* The texts of the files of the tree.
DirTexts ==
    { Text(<< << "/" >> >>, TRUE),
      Text(<< << "#pragma once" >>, << "/" >> >>, TRUE),
      Text(<< << "#ifndef", " ", "A" >>, << "#define", " ", "A" >> >>, TRUE),
      Text(<< << "#ifndef", " ", "B" >>, << "#define", " ", "B" >> >>, TRUE) }

MaxFiles == 2

Slots == Dirs \X FileNames

\* The sets of at most MaxFiles places that hold a file.
SlotSets == {T \in SUBSET Slots : Cardinality(T) <= MaxFiles}

\* The tree with a file at each place of S, text[slot] the text of the file
\* at slot.
TreeOf(S, text) ==
    {[dir |-> slot[1], name |-> slot[2], data |-> text[slot]] : slot \in S}

InitDir ==
    /\ pc = "idle"
    /\ data = << >>
    /\ statuses = << >>
    /\ \E S \in SlotSets : \E text \in [S -> DirTexts] : files = TreeOf(S, text)
    /\ pragma_result = None
    /\ guard_result = None
    /\ status = None
    /\ outcome = None
    /\ map_result = None
    /\ dup_result = None
    /\ dir_result = None
    /\ exit_status = None

\* errors_found = process_dir(os.getcwd()); sys.exit(1 if errors_found else 0)
\* (an exception that nothing catches ends the process with status 1)
Main ==
    /\ pc = "idle"
    /\ pc' = "exit"
    /\ LET errors_found == process_dir(<< >>)
       IN  /\ dir_result' = Some(errors_found)
           /\ exit_status' = Some(IF errors_found.kind = "raise" THEN 1
                                  ELSE IF errors_found.value # None THEN 1 ELSE 0)
    /\ UNCHANGED << data, statuses, files, pragma_result, guard_result, status,
                    outcome, map_result, dup_result >>

NextDir == Main

SpecDir == InitDir /\ [][NextDir]_vars


(***************************************************************************)
(* What the claims say, in terms of the text itself.                       *)
(***************************************************************************)
\* The position of the first newline of d at or after q (0: none).
NextNewline(d, q) == Leftmost({i \in q..Len(d) : d[i] = NL})

\* The first line of d, without its newline.
FirstLine(d) ==
    IF NextNewline(d, 1) = 0 THEN d ELSE SubSeq(d, 1, NextNewline(d, 1) - 1)

\* A line without its leading and trailing spaces and tabs.
Stripped(line) ==
    LET I == {i \in 1..Len(line) : line[i] \notin {" ", "\t"}}
    IN  IF I = {} THEN << >> ELSE SubSeq(line, Min(I), Max(I))

\* The identifier that starts at p (<< >>: none does).
IdentAt(d, p) == SubSeq(d, p, p + WordRun(d, p) - 1)

\* The newline that ends the line of the "#ifndef <id>" at p.
EndOfIfndefLine(d, p) == NextNewline(d, p + 2 + WordRun(d, p + 2))

\* At p: "#ifndef <id>", then anything on the same line, then a newline and
\* "#define".
GuardPairAt(d, p) ==
    /\ LitAt(d, p, << "#ifndef", " " >>)
    /\ WordRun(d, p + 2) >= 1
    /\ EndOfIfndefLine(d, p) # 0
    /\ LitAt(d, EndOfIfndefLine(d, p), << NL, "#define" >>)

\* The identifier after the "#define" that follows the newline at r ("" when
\* it has none).
DefinedName(d, r) == IF LitAt(d, r + 2, << " " >>) THEN IdentAt(d, r + 3) ELSE << >>

\* C1: a text whose first line is "#pragma once" is classified as
\* pragma-once, with no guard status, whatever follows (or nothing does).
C1_PragmaOnceFirstLine ==
    (pc = "check_header" /\ FirstLine(data) = << "#pragma once" >>)
        => status = Some(HeaderStatus(ThePath, None, TRUE))

\* C9: uses_pragma_once is true exactly when the first line, with its leading
\* and trailing whitespace taken off, is "#pragma once" (stated for a first
\* line that a newline ends; C1 covers the one that ends the text).
C9_PragmaOnceIffFirstLine ==
    (pc = "uses_pragma_once" /\ NextNewline(data, 1) # 0)
        => (pragma_result = Some(TRUE)
              <=> Stripped(FirstLine(data)) = << "#pragma once" >>)

\* C2: a text whose first #ifndef is "#ifndef TAG", followed (after anything
\* on the same line) by a newline and "#define TAG", has the guard
\* ifndef_name = def_name = TAG.
C2_GuardPairReported ==
    pc = "get_header_guard_status"
        => \A p \in 1..Len(data) :
               (/\ GuardPairAt(data, p)
                /\ \A i \in 1..(p - 1) : data[i] # "#ifndef"
                /\ DefinedName(data, EndOfIfndefLine(data, p)) = IdentAt(data, p + 2))
                   => guard_result =
                          Some(Some(HeaderGuardStatus(Some(IdentAt(data, p + 2)),
                                                      Some(IdentAt(data, p + 2)))))

\* C10: the guard is read from the first "#ifndef <id>" that a newline and
\* "#define" follow: ifndef_name is its identifier and def_name the identifier
\* after that same "#define", "" when it has none.
C10_FirstOccurrenceOnly ==
    (pc = "get_header_guard_status" /\ \E p \in 1..Len(data) : GuardPairAt(data, p))
        => LET p == Leftmost({q \in 1..Len(data) : GuardPairAt(data, q)})
           IN  guard_result =
                   Some(Some(HeaderGuardStatus(
                       Some(IdentAt(data, p + 2)),
                       Some(DefinedName(data, EndOfIfndefLine(data, p))))))

\* C6: process_file returns an error string exactly when the file is
\* unprotected or its guard's two names differ, returns no finding exactly
\* when it uses pragma-once or its guard's names agree, and never raises.
C6_ProcessFileOutcome ==
    pc = "process_file"
        => LET st == check_header(ThePath, data)
               guarded == ~st.uses_pragma_once /\ st.header_guard_status # None
               unprotected == ~st.uses_pragma_once /\ st.header_guard_status = None
               differ == st.header_guard_status[1].ifndef_name
                             # st.header_guard_status[1].def_name
           IN  /\ outcome[1].kind = "return"
               /\ outcome[1].value # None <=> (unprotected \/ (guarded /\ differ))
               /\ outcome[1].value = None
                      <=> (st.uses_pragma_once \/ (guarded /\ ~differ))

\* C6's case: a guard whose "#define" names nothing is reported as an error.
C6_Witness ==
    /\ pc = "process_file"
    /\ get_header_guard_status(data) # None
    /\ get_header_guard_status(data)[1].def_name = Some(<< >>)
    /\ ~uses_pragma_once(data)
    /\ outcome[1].kind = "return"
    /\ outcome[1].value # None

\* A status the grouping accepts: it has a guard status with a non-empty
\* ifndef_name.
HasTag(s) ==
    /\ s.header_guard_status # None
    /\ s.header_guard_status[1].ifndef_name # None
    /\ s.header_guard_status[1].ifndef_name # Some(<< >>)

TagOf(s) == s.header_guard_status[1].ifndef_name[1]

\* The places in ss of the statuses whose tag is tag.
PlacesOf(ss, tag) == {i \in 1..Len(ss) : HasTag(ss[i]) /\ TagOf(ss[i]) = tag}

\* paths holds the paths of ss's statuses with this tag, in ss's order.
IsBucketOf(paths, ss, tag) ==
    /\ Len(paths) = Cardinality(PlacesOf(ss, tag))
    /\ \A k \in 1..Len(paths) :
           /\ \E i \in PlacesOf(ss, tag) :
                 /\ paths[k] = ss[i].file_path
                 /\ Cardinality({j \in PlacesOf(ss, tag) : j < i}) = k - 1

RECURSIVE TotalLength(_)
TotalLength(ret) ==
    IF ret = << >> THEN 0 ELSE Len(ret[1].paths) + TotalLength(Tail(ret))

\* C7: map_guard_tag_to_filepaths raises, and returns no index, whenever some
\* status has no guard status or no (or an empty) ifndef_name.
C7_FailsFast ==
    (pc = "map_guard_tag_to_filepaths"
       /\ \E i \in 1..Len(statuses) : ~HasTag(statuses[i]))
        => map_result[1].kind = "raise"

\* C7's case: the offending status comes after two acceptable ones.
C7_Witness ==
    /\ pc = "map_guard_tag_to_filepaths"
    /\ Len(statuses) = 3
    /\ HasTag(statuses[1]) /\ HasTag(statuses[2]) /\ ~HasTag(statuses[3])
    /\ map_result[1].kind = "raise"

\* C8: for acceptable statuses the index has one bucket for each tag, holding
\* the paths of exactly the statuses with that tag in their order, and the
\* buckets' lengths add up to the number of statuses.
C8_BucketsInOrder ==
    (pc = "map_guard_tag_to_filepaths"
       /\ \A i \in 1..Len(statuses) : HasTag(statuses[i]))
        => /\ map_result[1].kind = "return"
           /\ LET ret == map_result[1].value
              IN  /\ \A k \in 1..Len(ret) :
                         IsBucketOf(ret[k].paths, statuses, ret[k].tag)
                  /\ \A k1, k2 \in 1..Len(ret) :
                         ret[k1].tag = ret[k2].tag => k1 = k2
                  /\ \A i \in 1..Len(statuses) :
                         TagOf(statuses[i]) \in DictKeys(ret)
                  /\ TotalLength(ret) = Len(statuses)

\* C8's case: the first and third status share a tag, the second has another.
C8_Witness ==
    /\ pc = "map_guard_tag_to_filepaths"
    /\ Len(statuses) = 3
    /\ \A i \in 1..3 : HasTag(statuses[i])
    /\ TagOf(statuses[1]) = TagOf(statuses[3])
    /\ TagOf(statuses[2]) # TagOf(statuses[1])
    /\ map_result[1].kind = "return"
    /\ Len(map_result[1].value) = 2
    /\ map_result[1].value[1].paths = << 1, 3 >>
    /\ map_result[1].value[2].paths = << 2 >>

\* C3: for guard-bearing statuses, a tag is reported as reused exactly when
\* two or more statuses have it, its one bucket holds all their paths, and the
\* function returns true exactly when some tag is reused (so false when the
\* tags are pairwise distinct).
C3_ReusedTags ==
    (pc = "duplicated_header_guards_exist"
       /\ \A i \in 1..Len(statuses) : HasTag(statuses[i]))
        => /\ dup_result[1].kind = "return"
           /\ LET repeated == dup_result[1].printed.repeated_tags
                  tags == {TagOf(statuses[i]) : i \in 1..Len(statuses)}
                  reused == {t \in tags : Cardinality(PlacesOf(statuses, t)) >= 2}
              IN  /\ {repeated[k].tag : k \in 1..Len(repeated)} = reused
                  /\ Len(repeated) = Cardinality(reused)
                  /\ \A k \in 1..Len(repeated) :
                         IsBucketOf(repeated[k].paths, statuses, repeated[k].tag)
                  /\ dup_result[1].value = (reused # {})

\* C3's case: two of three statuses share a tag.
C3_Witness ==
    /\ pc = "duplicated_header_guards_exist"
    /\ Len(statuses) = 3
    /\ \A i \in 1..3 : HasTag(statuses[i])
    /\ TagOf(statuses[1]) = TagOf(statuses[3])
    /\ TagOf(statuses[2]) # TagOf(statuses[1])
    /\ dup_result[1].kind = "return"
    /\ dup_result[1].value = TRUE
    /\ Len(dup_result[1].printed.repeated_tags) = 1
    /\ dup_result[1].printed.repeated_tags[1].paths = << 1, 3 >>

\* Two of the scanned headers have guards with the same ifndef_name.
TagShared(hs) ==
    \E i, j \in 1..Len(hs) :
        /\ i # j
        /\ hs[i].header_guard_status # None
        /\ hs[j].header_guard_status # None
        /\ hs[i].header_guard_status[1].ifndef_name
               = hs[j].header_guard_status[1].ifndef_name

\* One of the scanned headers has neither pragma-once nor a guard.
SomeUnprotected(hs) ==
    \E i \in 1..Len(hs) :
        hs[i].header_guard_status = None /\ ~hs[i].uses_pragma_once

\* C4: process_dir returns an error, and the process a non-zero status,
\* exactly when a scanned header is unprotected or two scanned headers share a
\* guard tag; otherwise no error and status 0.
C4_ErrorIffFinding ==
    pc = "exit"
        => LET hs == dir_result[1].printed.header_statuses
           IN  /\ dir_result[1].kind = "return"
               /\ dir_result[1].value # None
                      <=> (SomeUnprotected(hs) \/ TagShared(hs))
               /\ exit_status = Some(IF SomeUnprotected(hs) \/ TagShared(hs)
                                     THEN 1 ELSE 0)

\* C4's case: every scanned header is protected, two share a tag.
C4_Witness ==
    /\ pc = "exit"
    /\ dir_result[1].kind = "return"
    /\ ~SomeUnprotected(dir_result[1].printed.header_statuses)
    /\ TagShared(dir_result[1].printed.header_statuses)
    /\ dir_result[1].value = Some("Errors found")
    /\ exit_status = Some(1)

\* A header of the tree outside every .git and .svn directory.
VisibleHeader(f) ==
    /\ is_header(f.name)
    /\ \A k \in 1..Len(f.dir) : f.dir[k] \notin {".git", ".svn"}

\* C5: every header under the root, in the root directory itself or at any
\* depth, and outside .git and .svn, is enumerated and classified exactly
\* once.
C5_EveryHeaderOnce ==
    pc = "exit"
        => \A f \in files :
               VisibleHeader(f)
                   => LET path == [dir |-> f.dir, name |-> f.name]
                          headers == dir_result[1].printed.headers
                          hs == dir_result[1].printed.header_statuses
                      IN  /\ Cardinality({k \in 1..Len(headers) :
                                             headers[k] = path}) = 1
                          /\ Cardinality({k \in 1..Len(hs) :
                                             hs[k].file_path = path}) = 1


=============================================================================
